---- MODULE Spec2Model ----
(***************************************************************************)
(* Model of the module base class of the vendored SDK                      *)
(* (src/scripts/9-setup-vote.js, class Module): the signer/provider state  *)
(* of a module and the transaction path sendContractTransaction ->         *)
(* sendGaslessTransaction / sendAndWaitForTransaction.                     *)
(*                                                                         *)
(* An asynchronous call is a sequence of steps separated by its awaits;    *)
(* each step is one action, so steps of several calls and the setters of   *)
(* the module interleave exactly where the code can be suspended.          *)
(***************************************************************************)
EXTENDS Integers, Sequences, FiniteSets, TLC

(***************************************************************************)
(* Bounds of the model.                                                    *)
(***************************************************************************)
\* number of call slots: calls that can be in flight at the same time
MaxCalls == 2
\* total number of sendContractTransaction invocations in one behaviour
MaxInvocations == 2
\* number of setProviderOrSigner / clearSigner calls in one behaviour
MaxModuleChanges == 1

(***************************************************************************)
(* Values.                                                                 *)
(***************************************************************************)
Null == [kind |-> "null"]

\* addresses are character sequences, so that toLowerCase is a real function
ModuleAddress == <<"M", "d">>
PermitTokenAddress == <<"P", "t">>
PlainTokenAddress == <<"E", "r">>
ForwarderAddress == <<"F", "w">>
SpenderAddress == <<"S", "p">>

LowerChar(ch) ==
  CASE ch = "A" -> "a" [] ch = "B" -> "b" [] ch = "C" -> "c" [] ch = "D" -> "d"
    [] ch = "E" -> "e" [] ch = "F" -> "f" [] ch = "M" -> "m" [] ch = "P" -> "p"
    [] ch = "S" -> "s" [] ch = "W" -> "w" [] OTHER -> ch

ToLowerCase(s) == [i \in DOMAIN s |-> LowerChar(s[i])]

\* BigNumber.from(n).toString(): the decimal digits of n, most significant first
RECURSIVE ToDecString(_)
ToDecString(n) ==
  IF n < 10 THEN <<n>> ELSE Append(ToDecString(n \div 10), n % 10)

RECURSIVE DecValue(_)
DecValue(s) ==
  IF Len(s) = 0 THEN 0
  ELSE 10 * DecValue(SubSeq(s, 1, Len(s) - 1)) + s[Len(s)]

\* providers
RpcProvider ==
  [kind |-> "provider", name |-> "rpc", chainId |-> 137, isWalletConnect |-> FALSE]
WalletConnectProvider ==
  [kind |-> "provider", name |-> "wc", chainId |-> 1, isWalletConnect |-> TRUE]
ReadOnlyProvider ==
  [kind |-> "provider", name |-> "readonly", chainId |-> 137, isWalletConnect |-> FALSE]

\* signers: a JSON-RPC signer, a WalletConnect signer, a wallet without provider
SignerA ==
  [kind |-> "signer", name |-> "A", address |-> <<"A", "b">>, provider |-> RpcProvider]
SignerW ==
  [kind |-> "signer", name |-> "W", address |-> <<"C", "d">>,
   provider |-> WalletConnectProvider]
SignerN ==
  [kind |-> "signer", name |-> "N", address |-> <<"A", "b">>, provider |-> Null]

Signers == {SignerA, SignerW, SignerN}
ProviderOrSigners == Signers \cup {RpcProvider}
SenderAddresses == {s.address : s \in Signers}

\* Signer.isSigner
IsSigner(x) == x.kind = "signer"

\* the provider of a contract connected to x (ethers Contract.provider)
ProviderOf(x) ==
  IF x.kind = "provider" THEN x
  ELSE IF x.kind = "signer" THEN x.provider
  ELSE Null

(***************************************************************************)
(* Contract bindings: address and the function fragments of the interface. *)
(***************************************************************************)
ApproveSig == "approve(address,uint256)"
PermitSig == "permit(address,address,uint256,uint256,uint8,bytes32,bytes32)"
ClaimSig == "claim(uint256,uint256,bytes32[])"

Fragments ==
  { [sig |-> ApproveSig, name |-> "approve", arity |-> 2],
    [sig |-> PermitSig, name |-> "permit", arity |-> 7],
    [sig |-> ClaimSig, name |-> "claim", arity |-> 3] }

ModuleContract == [address |-> ModuleAddress, functions |-> {ClaimSig}]
PermitToken == [address |-> PermitTokenAddress, functions |-> {ApproveSig, PermitSig}]
PlainToken == [address |-> PlainTokenAddress, functions |-> {ApproveSig}]

ApproveArgs == <<SpenderAddress, 7>>
ClaimArgs == <<0, 1, <<"proof">> >>

\* the calls a caller makes: [contract binding, function name, argument list]
Requests ==
  { <<ModuleContract, "claim", ClaimArgs>>,
    <<PermitToken, "approve", ApproveArgs>>,
    <<PermitToken, ApproveSig, ApproveArgs>>,
    <<PlainToken, "approve", ApproveArgs>>,
    <<PermitToken, "approve", <<SpenderAddress, 7, 0>> >>,
    <<ModuleContract, "approve", ApproveArgs>> }

\* contract.interface.functions[signature]
HasFunction(target, sig) == sig \in target.functions

\* contract.interface.getFunction(nameOrSignature): the fragments it names
GetFunction(target, fn) ==
  {f \in Fragments : f.sig \in target.functions /\ (f.sig = fn \/ f.name = fn)}

\* contract.interface.encodeFunctionData(fn, args) succeeds
CanEncode(target, fn, args) ==
  /\ Cardinality(GetFunction(target, fn)) = 1
  /\ \A f \in GetFunction(target, fn) : f.arity = Len(args)

EncodeFunctionData(target, fn, args) ==
  [sig |-> (CHOOSE f \in GetFunction(target, fn) : TRUE).sig, args |-> args]

(***************************************************************************)
(* Values exchanged with the collaborators.                                *)
(***************************************************************************)
\* estimates the contract binding can return: the two sides of the threshold
GasEstimates == {24999, 25000}
\* gas prices the oracle can return (0: no price for the chain)
GasPrices == {0, 30}
\* the nonce the forwarder holds for each sender when the process starts
InitialForwarderNonce == [a \in SenderAddresses |-> IF a = <<"A", "b">> THEN 0 ELSE 3]
\* transaction hashes a dispatch can return
TxHashes == {"0xdef"}
\* recovery values the permit-signing flow can return
PermitVs == {1, 27}

NoOverrides == [given |-> FALSE, value |-> 0, gasPrice |-> 0]
CallerOverrides == { [given |-> TRUE, value |-> 5, gasPrice |-> 0] }

NoMessage == [kind |-> "none"]
NoSignature == [kind |-> "none"]
NoReceipt == [kind |-> "none"]
NoError == [kind |-> "none", at |-> "none"]
NoData == [sig |-> "none", args |-> <<>>]

InvariantError(at) == [kind |-> "InvariantError", at |-> at]
CallError(at) == [kind |-> "Error", at |-> at]

IdleCall ==
  [pc |-> "idle", id |-> 0, contract |-> ModuleContract, conn |-> Null,
   fn |-> "none", args |-> <<>>, callerOverrides |-> FALSE,
   overrides |-> NoOverrides, signer |-> Null, provider |-> Null, chainId |-> 0,
   network |-> Null, from |-> <<>>, to |-> <<>>, value |-> 0, data |-> NoData,
   forwarder |-> Null, gasEstimate |-> 0, gas |-> 0, nonce |-> 0,
   message |-> NoMessage, signed |-> NoMessage, signature |-> NoSignature,
   signLog |-> <<>>, relayLog |-> <<>>, txHash |-> "none", waitLog |-> <<>>,
   directLog |-> <<>>, result |-> NoReceipt, error |-> NoError, trace |-> <<>>]

(***************************************************************************)
(* ModuleWithRoles: roles, their members and the encoded role calls.       *)
(***************************************************************************)
\* getModuleRoles() of the concrete module: BundleDropModule.roles
ModuleRoles == <<"admin", "minter", "transfer">>

\* the roles a caller names: roles of the module and one it does not support
RoleInputs == {"admin", "minter", "pauser"}

\* the addresses a caller names: the address of signer A as the contract returns
\* it, the same address in lower case, and another account
RoleAddresses == {<<"A", "b">>, <<"a", "b">>, <<"S", "p">>}

\* Array.prototype.includes
Includes(seq, x) == \E i \in DOMAIN seq : seq[i] = x

\* getRoleHash(role)
RoleHash(role) == <<"hash", role>>

\* contract.interface.encodeFunctionData(fn, [getRoleHash(role), address])
EncodeRoleCall(fn, role, address) ==
  [fn |-> fn, role |-> RoleHash(role), account |-> address]

\* the member lists the contract can hold when an operation starts
RoleMemberships ==
  { [admin |-> <<<<"A", "b">>>>, minter |-> <<<<"A", "b">>, <<"S", "p">>>>,
     transfer |-> <<>>],
    [admin |-> <<<<"A", "b">>, <<"S", "p">>>>, minter |-> <<<<"S", "p">>>>,
     transfer |-> <<<<"S", "p">>>>] }

NoRoleMembers == [admin |-> <<>>, minter |-> <<>>, transfer |-> <<>>]

\* the arguments of setAllRoleMembers: the keys of the record in insertion order,
\* each with its list of addresses
SetAllRolesInputs ==
  { <<>>,
    << [role |-> "pauser", addresses |-> <<>>] >>,
    << [role |-> "minter", addresses |-> <<<<"A", "b">>>>] >>,
    << [role |-> "admin", addresses |-> <<<<"A", "b">>, <<"S", "p">>>>],
       [role |-> "minter", addresses |-> <<>>] >>,
    << [role |-> "minter", addresses |-> <<<<"a", "b">>>>],
       [role |-> "admin", addresses |-> <<>>],
       [role |-> "transfer", addresses |-> <<<<"A", "b">>>>] >> }

IdleRoleCall ==
  [op |-> "none", pc |-> "idle", role |-> "none", address |-> <<>>, input |-> <<>>,
   currentRoles |-> NoRoleMembers, roles |-> <<>>, encoded |-> <<>>,
   pending |-> <<>>, rolesRemoved |-> <<>>, by |-> Null, txFn |-> "none",
   txArgs |-> <<>>, sent |-> <<>>, members |-> <<>>, returned |-> <<>>,
   result |-> NoReceipt,
   error |-> NoError, trace |-> <<>>]

(***************************************************************************)
(* BundleDropModule.claim: claim conditions and allowances.                *)
(***************************************************************************)
AddressZero == <<"0", "0">>

\* ERC20__factory.connect(currency, providerOrSigner): the binding of a currency
ERC20Connect(currency) ==
  IF currency = PermitTokenAddress THEN PermitToken ELSE PlainToken

\* the active claim conditions the contract can return: price per token, currency
\* and whether the merkle root names a snapshot that lists the claimer
ClaimConditions ==
  { [pricePerToken |-> 0, currency |-> AddressZero, merkle |-> "none"],
    [pricePerToken |-> 7, currency |-> AddressZero, merkle |-> "none"],
    [pricePerToken |-> 7, currency |-> PlainTokenAddress, merkle |-> "none"],
    [pricePerToken |-> 7, currency |-> PermitTokenAddress, merkle |-> "listed"],
    [pricePerToken |-> 0, currency |-> PlainTokenAddress, merkle |-> "unlisted"] }

\* the quantities a caller claims and the allowances the currency can hold
ClaimQuantities == {1, 2}
Allowances == {0, 7, 21}

NoCondition == [pricePerToken |-> 0, currency |-> AddressZero, merkle |-> "none"]

IdleClaimCall ==
  [pc |-> "idle", tokenId |-> 0, quantity |-> 0, proofs |-> <<>>,
   condition |-> NoCondition, overrides |-> NoOverrides, allowance |-> -1,
   totalPrice |-> 0, approve |-> IdleCall, claimId |-> 0, error |-> NoError]

(***************************************************************************)
(* State.                                                                  *)
(***************************************************************************)
VARIABLES
  signer,            \* Module._signer
  storedProviderOrSigner, \* Module._providerOrSigner
  contract,          \* what Module.contract is connected to
  readOnlyContract,  \* what Module.readOnlyContract is connected to
  options,           \* Module.options (never changes after construction)
  nonceCache,        \* the locally cached forwarder nonce of each sender (-1: none)
  forwarderNonce,    \* the nonce the forwarder contract holds for each sender
  calls,             \* the sendContractTransaction calls, by slot
  invocations,       \* number of calls started so far
  built,             \* the ForwardRequest nonces built so far: [id, from, nonce]
  moduleChanges,     \* number of setter calls so far
  roleMembers,       \* the members of each role the contract holds
  roleCall,          \* the ModuleWithRoles operation in flight
  claimCall          \* the BundleDropModule.claim operation in flight

vars ==
  <<signer, storedProviderOrSigner, contract, readOnlyContract, options,
    nonceCache, forwarderNonce, calls, invocations, built, moduleChanges,
    roleMembers, roleCall, claimCall>>

\* the state of the operations that are built on sendContractTransaction
callerVars == <<roleMembers, roleCall, claimCall>>

moduleVars == <<signer, storedProviderOrSigner, contract, readOnlyContract, options>>

Calls == 1..MaxCalls

\* get providerOrSigner()
providerOrSigner == IF signer # Null THEN signer ELSE storedProviderOrSigner

\* connectContract() of the concrete modules: Factory.connect(address, providerOrSigner)
connectContract == providerOrSigner

\* the readOnlyContract expression of the constructor and of setProviderOrSigner
ConnectReadOnly(opts, conn) == IF opts.readOnlyRpcUrl THEN ReadOnlyProvider ELSE conn

getSigner == IF IsSigner(signer) THEN signer ELSE Null

hasValidSigner == IsSigner(signer)

\* getProvider(): this.readOnlyContract.provider
getProvider == ProviderOf(readOnlyContract)

(***************************************************************************)
(* Construction and the setters of the module.                             *)
(***************************************************************************)
\* the relay dispatch function of the options: the configuration supplies one
\* whenever it configures a relay transport
RelayTransport(relay) == relay

\* the fields of the module after new Module(providerOrSigner, address, options, sdk)
Constructed ==
  \E x \in ProviderOrSigners, relay \in BOOLEAN, ro \in BOOLEAN :
    /\ options = [transactionRelayerUrl |-> relay, readOnlyRpcUrl |-> ro,
                  transactionRelayerSendFunction |-> RelayTransport(relay),
                  transactionRelayerForwarderAddress |-> ForwarderAddress]
    /\ storedProviderOrSigner = x
    /\ signer = IF IsSigner(x) THEN x ELSE Null
    /\ contract = x
    /\ readOnlyContract = ConnectReadOnly(options, x)

\* no call has been made yet
NoCallYet ==
  /\ nonceCache = [a \in SenderAddresses |-> -1]
  /\ forwarderNonce = InitialForwarderNonce
  /\ calls = [c \in Calls |-> IdleCall]
  /\ invocations = 0
  /\ built = {}
  /\ moduleChanges = 0
  /\ roleCall = IdleRoleCall
  /\ claimCall = IdleClaimCall

\* the state after construction, on a contract that holds no role member
Init ==
  /\ Constructed
  /\ NoCallYet
  /\ roleMembers = NoRoleMembers

\* mutant of setProviderOrSigner: a plain provider detaches the signer
setProviderOrSignerDetaches(x) ==
  /\ moduleChanges < MaxModuleChanges
  /\ moduleChanges' = moduleChanges + 1
  /\ storedProviderOrSigner' = x
  /\ signer' = IF IsSigner(x) THEN x ELSE Null
  /\ contract' = connectContract'
  /\ readOnlyContract' = ConnectReadOnly(options, contract')
  /\ UNCHANGED <<callerVars, options, nonceCache, forwarderNonce, calls, invocations, built>>

setProviderOrSigner(x) ==
  /\ moduleChanges < MaxModuleChanges
  /\ moduleChanges' = moduleChanges + 1
  /\ storedProviderOrSigner' = x
  /\ signer' = IF IsSigner(x) THEN x ELSE signer
  /\ contract' = connectContract'
  /\ readOnlyContract' = ConnectReadOnly(options, contract')
  /\ UNCHANGED <<callerVars, options, nonceCache, forwarderNonce, calls, invocations, built>>

\* mutant of clearSigner: the contract bindings are reconnected to the provider of
\* the cleared signer
clearSignerDisconnects ==
  /\ moduleChanges < MaxModuleChanges
  /\ moduleChanges' = moduleChanges + 1
  /\ signer' = Null
  /\ contract' = IF ProviderOf(contract) = Null THEN contract ELSE ProviderOf(contract)
  /\ readOnlyContract' = ConnectReadOnly(options, contract')
  /\ UNCHANGED <<callerVars, storedProviderOrSigner, options,
                 nonceCache, forwarderNonce, calls, invocations, built>>

clearSigner ==
  /\ moduleChanges < MaxModuleChanges
  /\ moduleChanges' = moduleChanges + 1
  /\ signer' = Null
  /\ UNCHANGED <<callerVars, storedProviderOrSigner, contract, readOnlyContract, options,
                 nonceCache, forwarderNonce, calls, invocations, built>>

(***************************************************************************)
(* sendContractTransaction.                                                *)
(***************************************************************************)
Set(c, rec) == calls' = [calls EXCEPT ![c] = rec]

Fail(c, err, steps) ==
  Set(c, [calls[c] EXCEPT !.pc = "failed", !.error = err, !.trace = @ \o steps])

\* mutant of Route: the branch tests the forwarder address, which is always set
RouteByForwarderAddress(opts) ==
  IF opts.transactionRelayerForwarderAddress # <<>> THEN "sendGasless" ELSE "sendAndWait"

\* the branch of sendContractTransaction on options.transactionRelayerUrl
Route(opts) == IF opts.transactionRelayerUrl THEN "sendGasless" ELSE "sendAndWait"

\* the call of sendContractTransaction: its arguments, and the first branch on
\* callOverrides
StartCall(c, target, fn, args, ov) ==
  /\ calls[c].pc \in {"idle", "done", "failed"}
  /\ invocations < MaxInvocations
  /\ invocations' = invocations + 1
  /\ Set(c, [IdleCall EXCEPT
         !.id = invocations + 1,
         !.contract = target,
         !.conn = IF target = ModuleContract THEN contract ELSE providerOrSigner,
         !.fn = fn,
         !.args = args,
         !.callerOverrides = ov.given,
         !.overrides = ov,
         !.pc = IF ov.given THEN Route(options) ELSE "getCallOverrides"])

\* a caller starts sendContractTransaction(target, fn, args, callOverrides?)
sendContractTransaction(c, target, fn, args, ov) ==
  /\ StartCall(c, target, fn, args, ov)
  /\ UNCHANGED <<callerVars, moduleVars, nonceCache, forwarderNonce, built, moduleChanges>>

\* getCallOverrides (with getChainID), then the branch on the relay option
getCallOverrides(c) ==
  /\ calls[c].pc = "getCallOverrides"
  /\ \/ /\ getProvider = Null
        /\ Fail(c, InvariantError("getChainID"), <<>>)
     \/ /\ getProvider # Null
        /\ \/ Fail(c, CallError("getNetwork"), <<"getNetwork">>)
           \/ Fail(c, CallError("getGasPriceForChain"),
                   <<"getNetwork", "getGasPriceForChain">>)
           \/ \E price \in GasPrices :
                Set(c, [calls[c] EXCEPT
                  !.overrides = [given |-> TRUE, value |-> 0, gasPrice |-> price],
                  !.trace = @ \o <<"getNetwork", "getGasPriceForChain">>,
                  !.pc = Route(options)])
  /\ UNCHANGED <<callerVars, moduleVars, nonceCache, forwarderNonce, invocations, built,
                 moduleChanges>>

(***************************************************************************)
(* sendGaslessTransaction.                                                 *)
(***************************************************************************)
GasLimitFloor == 500000
GasEstimateThreshold == 25000

\* mutant of GasLimit: the floor also applies to an estimate of exactly 25000
GasLimitInclusive(gasEstimate) ==
  IF gasEstimate <= GasEstimateThreshold THEN GasLimitFloor ELSE gasEstimate * 2

\* let gas = gasEstimate.mul(2); if (gasEstimate.lt(25000)) gas = 500000
GasLimit(gasEstimate) ==
  IF gasEstimate < GasEstimateThreshold THEN GasLimitFloor ELSE gasEstimate * 2

\* const to = this.address
ForwardTo(target) == ModuleAddress

\* const value = callOverrides?.value || 0
ForwardValue(ov) == IF ov.given /\ ov.value # 0 THEN ov.value ELSE 0

\* mutant of ForwardDomain: the chain id is the one of the default chain
ForwardDomainDefaultChain(chainId, forwarderAddress) ==
  [name |-> "GSNv2 Forwarder", version |-> "0.0.1", chainId |-> 137,
   verifyingContract |-> forwarderAddress]

\* const domain = { name, version, chainId, verifyingContract: forwarderAddress }
ForwardDomain(chainId, forwarderAddress) ==
  [name |-> "GSNv2 Forwarder", version |-> "0.0.1", chainId |-> chainId,
   verifyingContract |-> forwarderAddress]

\* mutant of ForwardRequestMessage: the nonce field is the incremented nonce
ForwardRequestMessageNextNonce(from, to, value, gas, nonce, data) ==
  [kind |-> "ForwardRequest", from |-> from, to |-> to,
   value |-> ToDecString(value), gas |-> ToDecString(gas),
   nonce |-> ToDecString(nonce + 1), data |-> data]

\* the ForwardRequestMessage literal
ForwardRequestMessage(from, to, value, gas, nonce, data) ==
  [kind |-> "ForwardRequest", from |-> from, to |-> to,
   value |-> ToDecString(value), gas |-> ToDecString(gas),
   nonce |-> ToDecString(nonce), data |-> data]

\* mutant of UsePermit: the permit capability of the contract is not checked
UsePermitAnyApprove(target, fn, args) ==
  /\ fn = "approve"
  /\ Len(args) = 2
  /\ HasFunction(target, ApproveSig)

\* the condition under which permit replaces approve
UsePermit(target, fn, args) ==
  /\ fn = "approve"
  /\ Len(args) = 2
  /\ HasFunction(target, ApproveSig)
  /\ HasFunction(target, PermitSig)

\* mutant of checkSignerAndProvider: the signer invariant is missing
checkProviderOnly(c) ==
  /\ calls[c].pc = "sendGasless"
  /\ IF getProvider = Null
       THEN Fail(c, InvariantError("provider"), <<>>)
     ELSE Set(c, [calls[c] EXCEPT !.signer = getSigner, !.provider = getProvider,
                                  !.pc = "getChainID"])
  /\ UNCHANGED <<callerVars, moduleVars, nonceCache, forwarderNonce, invocations, built,
                 moduleChanges>>

\* step 1: getSigner and getProvider with their invariants
checkSignerAndProvider(c) ==
  /\ calls[c].pc = "sendGasless"
  /\ IF getSigner = Null
       THEN Fail(c, InvariantError("signer"), <<>>)
     ELSE IF getProvider = Null
       THEN Fail(c, InvariantError("provider"), <<>>)
     ELSE Set(c, [calls[c] EXCEPT !.signer = getSigner, !.provider = getProvider,
                                  !.pc = "getChainID"])
  /\ UNCHANGED <<callerVars, moduleVars, nonceCache, forwarderNonce, invocations, built,
                 moduleChanges>>

\* step 2: getChainID
getChainID(c) ==
  /\ calls[c].pc = "getChainID"
  /\ IF getProvider = Null
       THEN Fail(c, InvariantError("getChainID"), <<>>)
     ELSE \/ Fail(c, CallError("getNetwork"), <<"getNetwork">>)
          \/ Set(c, [calls[c] EXCEPT !.chainId = getProvider.chainId,
                                     !.network = getProvider,
                                     !.trace = Append(@, "getNetwork"),
                                     !.pc = "getSignerAddress"])
  /\ UNCHANGED <<callerVars, moduleVars, nonceCache, forwarderNonce, invocations, built,
                 moduleChanges>>

\* Forwarder__factory.connect(forwarderAddress, provider)
ForwarderConnect(forwarderAddress, provider) ==
  [address |-> forwarderAddress, provider |-> provider]

\* step 3: getSignerAddress, to, value, encodeFunctionData, the forwarder binding
resolveRequestFields(c) ==
  /\ calls[c].pc = "getSignerAddress"
  /\ IF getSigner = Null
       THEN Fail(c, InvariantError("getSignerAddress"), <<>>)
     ELSE IF ~CanEncode(calls[c].contract, calls[c].fn, calls[c].args)
       THEN Fail(c, CallError("encodeFunctionData"),
                 <<"getAddress", "encodeFunctionData">>)
     ELSE Set(c, [calls[c] EXCEPT
            !.from = getSigner.address,
            !.to = ForwardTo(calls[c].contract),
            !.value = ForwardValue(calls[c].overrides),
            !.data = EncodeFunctionData(calls[c].contract, calls[c].fn, calls[c].args),
            !.forwarder = ForwarderConnect(options.transactionRelayerForwarderAddress,
                                           calls[c].provider),
            !.trace = @ \o <<"getAddress", "encodeFunctionData">>,
            !.pc = "estimateGas"])
  /\ UNCHANGED <<callerVars, moduleVars, nonceCache, forwarderNonce, invocations, built,
                 moduleChanges>>

\* step 4: contract.estimateGas[fn](...args) and the gas limit
estimateGas(c, e) ==
  /\ calls[c].pc = "estimateGas"
  /\ \/ Fail(c, CallError("estimateGas"), <<"estimateGas">>)
     \/ Set(c, [calls[c] EXCEPT !.gasEstimate = e, !.gas = GasLimit(e),
                                !.trace = Append(@, "estimateGas"),
                                !.pc = "getNonce"])
  /\ UNCHANGED <<callerVars, moduleVars, nonceCache, forwarderNonce, invocations, built,
                 moduleChanges>>

\* getAndIncrementNonce(forwarder, from): the value the nonce source returns
NonceSource(cache, chain, from) ==
  IF cache[from] # -1 THEN cache[from] ELSE chain[from]

\* getAndIncrementNonce(forwarder, from): the cache after the increment
IncrementNonce(cache, from, nonce) == [cache EXCEPT ![from] = nonce + 1]

\* mutant of nonceRead: the read waits while another call of the sender is between
\* its read and its increment
nonceReadExclusive(c) ==
  /\ calls[c].pc = "getNonce"
  /\ \A d \in Calls \ {c} :
       ~(calls[d].pc = "incrementNonce" /\ calls[d].from = calls[c].from)
  /\ \/ Fail(c, CallError("getNonce"), <<"getNonce">>)
     \/ Set(c, [calls[c] EXCEPT
          !.nonce = NonceSource(nonceCache, forwarderNonce, calls[c].from),
          !.trace = Append(@, "getNonce"),
          !.pc = "incrementNonce"])
  /\ UNCHANGED <<callerVars, moduleVars, nonceCache, forwarderNonce, invocations, built,
                 moduleChanges>>

\* step 5: getAndIncrementNonce, the read of the nonce source
nonceRead(c) ==
  /\ calls[c].pc = "getNonce"
  /\ \/ Fail(c, CallError("getNonce"), <<"getNonce">>)
     \/ Set(c, [calls[c] EXCEPT
          !.nonce = NonceSource(nonceCache, forwarderNonce, calls[c].from),
          !.trace = Append(@, "getNonce"),
          !.pc = "incrementNonce"])
  /\ UNCHANGED <<callerVars, moduleVars, nonceCache, forwarderNonce, invocations, built,
                 moduleChanges>>

\* mutant of nonceIncrement: a call that will sign a permit leaves the cache alone
nonceIncrementUnlessPermit(c) ==
  /\ calls[c].pc = "incrementNonce"
  /\ nonceCache' =
       IF UsePermit(calls[c].contract, calls[c].fn, calls[c].args) THEN nonceCache
       ELSE IncrementNonce(nonceCache, calls[c].from, calls[c].nonce)
  /\ Set(c, [calls[c] EXCEPT
       !.message = ForwardRequestMessage(calls[c].from, calls[c].to, calls[c].value,
                                         calls[c].gas, calls[c].nonce, calls[c].data),
       !.pc = "sign"])
  /\ built' = built \cup {[id |-> calls[c].id, from |-> calls[c].from,
                             nonce |-> calls'[c].message.nonce]}
  /\ UNCHANGED <<callerVars, moduleVars, forwarderNonce, invocations, moduleChanges>>

\* step 6: getAndIncrementNonce, the increment; then domain, types and message
nonceIncrement(c) ==
  /\ calls[c].pc = "incrementNonce"
  /\ nonceCache' = IncrementNonce(nonceCache, calls[c].from, calls[c].nonce)
  /\ Set(c, [calls[c] EXCEPT
       !.message = ForwardRequestMessage(calls[c].from, calls[c].to, calls[c].value,
                                         calls[c].gas, calls[c].nonce, calls[c].data),
       !.pc = "sign"])
  /\ built' = built \cup {[id |-> calls[c].id, from |-> calls[c].from,
                             nonce |-> calls'[c].message.nonce]}
  /\ UNCHANGED <<callerVars, moduleVars, forwarderNonce, invocations, moduleChanges>>

HexChars ==
  <<"0", "1", "2", "3", "4", "5", "6", "7", "8", "9", "a", "b", "c", "d", "e", "f">>

\* Number.prototype.toString(16)
RECURSIVE ToHexString(_)
ToHexString(n) ==
  IF n < 16 THEN <<HexChars[n + 1]>>
  ELSE Append(ToHexString(n \div 16), HexChars[(n % 16) + 1])

\* a 32-byte value as a 0x-prefixed hex string
Bytes32Hex(digit) ==
  [i \in 1..66 |-> IF i = 1 THEN "0" ELSE IF i = 2 THEN "x" ELSE digit]

\* token.nonces(owner): the permit nonce the token holds for the owner
TokenNonce(token, owner) == [nonces |-> token, of |-> owner]

\* the typed data signERC2612Permit signs: the Permit message of the token
PermitTypedData(token, owner, spender, amount) ==
  [kind |-> "Permit", verifyingContract |-> token, owner |-> owner,
   spender |-> spender, value |-> amount, nonce |-> TokenNonce(token, owner),
   deadline |-> "MAX_INT"]

\* signERC2612Permit(signer, token, owner, spender, amount): the signed fields and
\* the r, s, v of the signature
SignERC2612Permit(by, token, owner, spender, amount, v) ==
  [owner |-> owner, spender |-> spender, value |-> amount,
   nonce |-> TokenNonce(token, owner), deadline |-> "MAX_INT",
   r |-> Bytes32Hex("a"), s |-> Bytes32Hex("b"), v |-> v]

\* message = { to: contract.address, ...permit }
PermitRequestMessage(to, permit) ==
  [kind |-> "PermitRequest", to |-> to, owner |-> permit.owner,
   spender |-> permit.spender, value |-> permit.value, nonce |-> permit.nonce,
   deadline |-> permit.deadline, r |-> permit.r, s |-> permit.s, v |-> permit.v]

\* `${permit.r}${permit.s.substring(2)}${permit.v.toString(16)}`
PackSignature(permit) ==
  [kind |-> "packed",
   hex |-> permit.r \o SubSeq(permit.s, 3, Len(permit.s)) \o ToHexString(permit.v)]

\* signer?.provider?.provider?.isWalletConnect
IsWalletConnect(s) == s.provider # Null /\ s.provider.isWalletConnect

\* the entry point that signs the typed data
TypedDataEntry(s) == IF IsWalletConnect(s) THEN "eth_signTypedData" ELSE "_signTypedData"

\* mutant of TypedDataAccount: the address is passed as it is
TypedDataAccountAsIs(s, from) == IF IsWalletConnect(s) THEN from ELSE s.address

\* the account named to the entry point
TypedDataAccount(s, from) == IF IsWalletConnect(s) THEN ToLowerCase(from) ELSE s.address

\* a typed-data signature: what was signed, by whom, through which entry point
TypedDataSignature(s, from, domain, message) ==
  [kind |-> "typedData", entry |-> TypedDataEntry(s), by |-> s.name,
   account |-> TypedDataAccount(s, from), domain |-> domain,
   types |-> "ForwardRequest", message |-> message]

\* step 7: the signature, by permit or by typed-data signing
sign(c, v) ==
  /\ calls[c].pc = "sign"
  /\ LET call == calls[c] IN
     IF UsePermit(call.contract, call.fn, call.args)
       THEN \/ Fail(c, CallError("signERC2612Permit"), <<"signERC2612Permit">>)
            \/ LET permit == SignERC2612Permit(call.signer, call.contract.address,
                               call.from, call.args[1], call.args[2], v)
               IN Set(c, [call EXCEPT
                    !.message = PermitRequestMessage(call.contract.address, permit),
                    !.signed = PermitTypedData(call.contract.address, call.from,
                                               call.args[1], call.args[2]),
                    !.signature = PackSignature(permit),
                    !.signLog = Append(@, "signERC2612Permit"),
                    !.trace = Append(@, "signERC2612Permit"),
                    !.pc = "relay"])
       ELSE \/ Fail(c, CallError(TypedDataEntry(call.signer)),
                    <<TypedDataEntry(call.signer)>>)
            \/ Set(c, [call EXCEPT
                 !.signature = TypedDataSignature(call.signer, call.from,
                    ForwardDomain(call.chainId,
                                  options.transactionRelayerForwarderAddress),
                    call.message),
                 !.signed = call.message,
                 !.signLog = Append(@, TypedDataEntry(call.signer)),
                 !.trace = Append(@, TypedDataEntry(call.signer)),
                 !.pc = "relay"])
  /\ UNCHANGED <<callerVars, moduleVars, nonceCache, forwarderNonce, invocations, built,
                 moduleChanges>>

\* mutant of RelayArguments: the to field of the message is rewritten after the
\* message was signed
RelayArgumentsRetargeted(message, signature) ==
  [message |-> [message EXCEPT !.to = PlainTokenAddress], signature |-> signature]

\* the arguments of options.transactionRelayerSendFunction(message, signature)
RelayArguments(message, signature) == [message |-> message, signature |-> signature]

\* mutant of relay: a rejected submission is tried again
relayWithRetry(c, h) ==
  /\ calls[c].pc = "relay"
  /\ LET sent == [message |-> calls[c].message, signature |-> calls[c].signature] IN
     \/ Set(c, [calls[c] EXCEPT
          !.relayLog = Append(@, sent),
          !.trace = Append(@, "relay")])
     \/ Set(c, [calls[c] EXCEPT
          !.relayLog = Append(@, sent),
          !.trace = Append(@, "relay"),
          !.txHash = h,
          !.pc = "waitForTransaction"])
  /\ UNCHANGED <<callerVars, moduleVars, nonceCache, forwarderNonce, invocations, built,
                 moduleChanges>>

\* step 8: options.transactionRelayerSendFunction(message, signature), which
\* rejects or returns the transaction hash h
relay(c, h) ==
  /\ calls[c].pc = "relay"
  /\ LET sent == RelayArguments(calls[c].message, calls[c].signature) IN
     IF ~options.transactionRelayerSendFunction
       THEN Fail(c, CallError("relay"), <<"relay">>)
     ELSE \/ Set(c, [calls[c] EXCEPT
               !.relayLog = Append(@, sent),
               !.trace = Append(@, "relay"),
               !.pc = "failed", !.error = CallError("relay")])
          \/ Set(c, [calls[c] EXCEPT
               !.relayLog = Append(@, sent),
               !.trace = Append(@, "relay"),
               !.txHash = h,
               !.pc = "waitForTransaction"])
  /\ UNCHANGED <<callerVars, moduleVars, nonceCache, forwarderNonce, invocations, built,
                 moduleChanges>>

\* mutant of WaitHash: the wait is for a hash other than the one returned
WaitHashFixed(txHash) == "0xabc"

\* the hash handed to provider.waitForTransaction
WaitHash(txHash) == txHash

\* the receipt provider.waitForTransaction(h) resolves to when the transaction is
\* mined with the given status
Receipt(h, status) == [kind |-> "receipt", transactionHash |-> h, status |-> status]

\* return await provider.waitForTransaction(txHash)
ReturnReceipt(receipt) == receipt

\* mutant of waitForTransaction: a failed wait puts the cached nonce of the sender
\* back to the value the call read
waitForTransactionRollsBack(c, status) ==
  /\ calls[c].pc = "waitForTransaction"
  /\ LET h == WaitHash(calls[c].txHash) IN
     \/ /\ Set(c, [calls[c] EXCEPT
             !.waitLog = Append(@, [hash |-> h, receipt |-> NoReceipt]),
             !.trace = Append(@, "waitForTransaction"),
             !.pc = "failed", !.error = CallError("waitForTransaction")])
        /\ nonceCache' = [nonceCache EXCEPT ![calls[c].from] = calls[c].nonce]
     \/ /\ Set(c, [calls[c] EXCEPT
             !.waitLog = Append(@, [hash |-> h, receipt |-> Receipt(h, status)]),
             !.trace = Append(@, "waitForTransaction"),
             !.result = ReturnReceipt(Receipt(h, status)),
             !.pc = "done"])
        /\ nonceCache' = nonceCache
  /\ UNCHANGED <<callerVars, moduleVars, forwarderNonce, invocations, built,
                 moduleChanges>>

\* step 9: provider.waitForTransaction, which fails or resolves to a receipt
waitForTransaction(c, status) ==
  /\ calls[c].pc = "waitForTransaction"
  /\ LET h == WaitHash(calls[c].txHash) IN
     \/ Set(c, [calls[c] EXCEPT
          !.waitLog = Append(@, [hash |-> h, receipt |-> NoReceipt]),
          !.trace = Append(@, "waitForTransaction"),
          !.pc = "failed", !.error = CallError("waitForTransaction")])
     \/ Set(c, [calls[c] EXCEPT
          !.waitLog = Append(@, [hash |-> h, receipt |-> Receipt(h, status)]),
          !.trace = Append(@, "waitForTransaction"),
          !.result = ReturnReceipt(Receipt(h, status)),
          !.pc = "done"])
  /\ UNCHANGED <<callerVars, moduleVars, nonceCache, forwarderNonce, invocations, built,
                 moduleChanges>>

(***************************************************************************)
(* sendAndWaitForTransaction.                                              *)
(***************************************************************************)
\* contract.functions[fn](...args, callOverrides), then tx.wait()
sendAndWaitForTransaction(c, h, status) ==
  /\ calls[c].pc = "sendAndWait"
  /\ LET call == calls[c]
         tx == [to |-> call.contract.address, fn |-> call.fn, args |-> call.args,
                overrides |-> call.overrides, by |-> call.conn]
     IN
     IF ~CanEncode(call.contract, call.fn, call.args) \/ ~IsSigner(call.conn)
       THEN Fail(c, CallError("sendTransaction"), <<"sendTransaction">>)
     ELSE \/ Fail(c, CallError("sendTransaction"), <<"sendTransaction">>)
          \/ Set(c, [call EXCEPT !.directLog = Append(@, tx),
                                 !.trace = @ \o <<"sendTransaction", "wait">>,
                                 !.txHash = h,
                                 !.pc = "failed", !.error = CallError("wait")])
          \/ Set(c, [call EXCEPT !.directLog = Append(@, tx),
                                 !.trace = @ \o <<"sendTransaction", "wait">>,
                                 !.txHash = h,
                                 !.result = Receipt(h, status),
                                 !.pc = "done"])
  /\ UNCHANGED <<callerVars, moduleVars, nonceCache, forwarderNonce, invocations, built,
                 moduleChanges>>

(***************************************************************************)
(* ModuleWithRoles.                                                        *)
(*                                                                         *)
(* The callbacks that setAllRoleMembers and revokeAllRolesFromAddress pass *)
(* to forEach are async functions that nobody awaits: each runs up to its  *)
(* first await inside forEach and the rest when the awaited promise is     *)
(* settled, which can be before or after any later step of the operation.  *)
(***************************************************************************)
\* (role) => (role === "admin" ? 1 : -1), called as comparefn(a, b)
AdminLast(a, b) == IF a = "admin" THEN 1 ELSE -1

Reverse(s) == [i \in 1..Len(s) |-> s[Len(s) + 1 - i]]

\* Array.prototype.sort, the initial run: the last index of the run that starts
\* the array, descending when desc
RECURSIVE RunEnd(_, _, _)
RunEnd(s, idx, desc) ==
  IF idx > Len(s) THEN Len(s)
  ELSE LET order == AdminLast(s[idx], s[idx - 1]) IN
       IF (desc /\ order >= 0) \/ (~desc /\ order < 0) THEN idx - 1
       ELSE RunEnd(s, idx + 1, desc)

\* Array.prototype.sort, binary insertion: the place of the pivot among the
\* sorted elements left..right-1
RECURSIVE InsertPos(_, _, _, _)
InsertPos(s, pivot, left, right) ==
  IF left >= right THEN left
  ELSE LET mid == left + ((right - left) \div 2) IN
       IF AdminLast(pivot, s[mid]) < 0 THEN InsertPos(s, pivot, left, mid)
       ELSE InsertPos(s, pivot, mid + 1, right)

RECURSIVE BinaryInsertionSort(_, _)
BinaryInsertionSort(s, start) ==
  IF start > Len(s) THEN s
  ELSE LET at == InsertPos(s, s[start], 1, start)
           moved == SubSeq(s, 1, at - 1) \o <<s[start]>> \o SubSeq(s, at, start - 1)
                      \o SubSeq(s, start + 1, Len(s))
       IN BinaryInsertionSort(moved, start + 1)

\* roles.sort((role) => (role === "admin" ? 1 : -1)) as the engine sorts a short array: the initial run, reversed when it descends, then
\* binary insertion of the other elements
SortAdminLast(s) ==
  IF Len(s) < 2 THEN s
  ELSE LET desc == AdminLast(s[2], s[1]) < 0
           n == RunEnd(s, 3, desc)
           run == SubSeq(s, 1, n)
           s1 == (IF desc THEN Reverse(run) ELSE run) \o SubSeq(s, n + 1, Len(s))
       IN BinaryInsertionSort(s1, n + 1)

\* Object.keys(rolesWithAddresses)
RoleKeys(input) == [i \in DOMAIN input |-> input[i].role]

\* rolesWithAddresses[role] || []
AddressesOf(input, role) ==
  IF \E i \in DOMAIN input : input[i].role = role
    THEN input[CHOOSE i \in DOMAIN input : input[i].role = role].addresses
    ELSE <<>>

\* addresses.filter((address) => !currentAddresses.includes(address))
ToAdd(addresses, currentAddresses) ==
  SelectSeq(addresses, LAMBDA a : ~Includes(currentAddresses, a))

\* currentAddresses.filter((address) => !addresses.includes(address))
ToRemove(addresses, currentAddresses) ==
  SelectSeq(currentAddresses, LAMBDA a : ~Includes(addresses, a))

\* getRevokeRoleFunctionName, after getSignerAddress returned signerAddress
RevokeRoleFunctionName(signerAddress, address) ==
  IF ToLowerCase(signerAddress) = ToLowerCase(address) THEN "renounceRole"
  ELSE "revokeRole"

\* the grantRole calls the synchronous part of the forEach pushes to encoded, for
\* the sorted roles
RECURSIVE GrantsOf(_, _, _)
GrantsOf(roles, input, current) ==
  IF roles = <<>> THEN <<>>
  ELSE LET role == Head(roles)
           toAdd == ToAdd(AddressesOf(input, role), current[role])
       IN [i \in DOMAIN toAdd |-> EncodeRoleCall("grantRole", role, toAdd[i])]
            \o GrantsOf(Tail(roles), input, current)

\* the callbacks of toRemove.forEach that wait for getRevokeRoleFunctionName, for
\* the sorted roles; none when getSignerAddress fails its invariant
RECURSIVE RevokesOf(_, _, _, _)
RevokesOf(roles, input, current, by) ==
  IF roles = <<>> \/ by = Null THEN <<>>
  ELSE LET role == Head(roles)
           toRemove == ToRemove(AddressesOf(input, role), current[role])
       IN [i \in DOMAIN toRemove |-> [role |-> role, address |-> toRemove[i], by |-> by]]
            \o RevokesOf(Tail(roles), input, current, by)

\* the callbacks of revokeAllRolesFromAddress that wait for
\* getRevokeRoleFunctionName: one for each sorted role whose list includes address
RECURSIVE RevokeAllOf(_, _, _, _)
RevokeAllOf(roles, current, address, by) ==
  IF roles = <<>> \/ by = Null THEN <<>>
  ELSE LET role == Head(roles) IN
       (IF Includes(current[role], address)
          THEN <<[role |-> role, address |-> address, by |-> by]>> ELSE <<>>)
         \o RevokeAllOf(Tail(roles), current, address, by)

RoleIdle == roleCall.pc \in {"idle", "done", "failed"}

RoleUnchanged ==
  UNCHANGED <<moduleVars, nonceCache, forwarderNonce, calls, invocations, built,
              moduleChanges, roleMembers, claimCall>>

\* getRoleMembers(role): the invariant on the role
getRoleMembers(role) ==
  /\ RoleIdle
  /\ roleCall' =
       IF ~Includes(ModuleRoles, role)
         THEN [IdleRoleCall EXCEPT !.op = "getRoleMembers", !.role = role,
                                   !.pc = "failed", !.error = InvariantError("role")]
       ELSE [IdleRoleCall EXCEPT !.op = "getRoleMembers", !.role = role,
                                 !.pc = "getRoleMemberCount"]
  /\ RoleUnchanged

\* getRoleMembers: getRoleMemberCount and getRoleMember of every index
readRoleMembers ==
  /\ roleCall.pc = "getRoleMemberCount"
  /\ \/ roleCall' = [roleCall EXCEPT !.pc = "failed",
                                     !.error = CallError("getRoleMemberCount"),
                                     !.trace = Append(@, "getRoleMemberCount")]
     \/ roleCall' = [roleCall EXCEPT !.pc = "done",
                                     !.members = roleMembers[roleCall.role],
                                     !.trace = @ \o <<"getRoleMemberCount",
                                                      "getRoleMember">>]
  /\ RoleUnchanged

\* grantRole(role, address): the invariant, then sendTransaction("grantRole", ...)
grantRole(role, address) ==
  /\ RoleIdle
  /\ roleCall' =
       IF ~Includes(ModuleRoles, role)
         THEN [IdleRoleCall EXCEPT !.op = "grantRole", !.role = role,
                                   !.address = address,
                                   !.pc = "failed", !.error = InvariantError("role")]
       ELSE [IdleRoleCall EXCEPT !.op = "grantRole", !.role = role,
                                 !.address = address, !.txFn = "grantRole",
                                 !.txArgs = <<RoleHash(role), address>>,
                                 !.pc = "getCallOverrides"]
  /\ RoleUnchanged

\* mutant of revokeRole: the function name is resolved before the role is checked
revokeRoleNameFirst(role, address) ==
  /\ RoleIdle
  /\ roleCall' =
       IF getSigner = Null
         THEN [IdleRoleCall EXCEPT !.op = "revokeRole", !.role = role,
                                   !.address = address, !.pc = "failed",
                                   !.error = InvariantError("getSignerAddress")]
       ELSE [IdleRoleCall EXCEPT !.op = "revokeRole", !.role = role,
                                 !.address = address, !.by = getSigner,
                                 !.trace = <<"getAddress">>,
                                 !.pc = "getAddress"]
  /\ RoleUnchanged

\* revokeRole(role, address): the invariant, then getRevokeRoleFunctionName up to
\* signer.getAddress()
revokeRole(role, address) ==
  /\ RoleIdle
  /\ roleCall' =
       IF ~Includes(ModuleRoles, role)
         THEN [IdleRoleCall EXCEPT !.op = "revokeRole", !.role = role,
                                   !.address = address,
                                   !.pc = "failed", !.error = InvariantError("role")]
       ELSE IF getSigner = Null
         THEN [IdleRoleCall EXCEPT !.op = "revokeRole", !.role = role,
                                   !.address = address, !.pc = "failed",
                                   !.error = InvariantError("getSignerAddress")]
       ELSE [IdleRoleCall EXCEPT !.op = "revokeRole", !.role = role,
                                 !.address = address, !.by = getSigner,
                                 !.trace = <<"getAddress">>,
                                 !.pc = "getAddress"]
  /\ RoleUnchanged

\* revokeRole: getAddress is settled, then sendTransaction(revokeFunctionName, ...)
revokeRoleSend ==
  /\ roleCall.pc = "getAddress"
  /\ \/ roleCall' = [roleCall EXCEPT !.pc = "failed",
                                     !.error = CallError("getAddress")]
     \/ roleCall' = [roleCall EXCEPT
          !.txFn = RevokeRoleFunctionName(roleCall.by.address, roleCall.address),
          !.txArgs = <<RoleHash(roleCall.role), roleCall.address>>,
          !.pc = "getCallOverrides"]
  /\ RoleUnchanged

\* setAllRoleMembers(rolesWithAddresses): the two invariants
setAllRoleMembers(input) ==
  /\ RoleIdle
  /\ roleCall' =
       IF Len(RoleKeys(input)) = 0
         THEN [IdleRoleCall EXCEPT !.op = "setAllRoleMembers", !.input = input,
                                   !.pc = "failed", !.error = InvariantError("roles")]
       ELSE IF \E i \in DOMAIN input : ~Includes(ModuleRoles, input[i].role)
         THEN [IdleRoleCall EXCEPT !.op = "setAllRoleMembers", !.input = input,
                                   !.pc = "failed", !.error = InvariantError("role")]
       ELSE [IdleRoleCall EXCEPT !.op = "setAllRoleMembers", !.input = input,
                                 !.roles = RoleKeys(input),
                                 !.pc = "getAllRoleMembers"]
  /\ RoleUnchanged

\* revokeAllRolesFromAddress(address), up to getAllRoleMembers
revokeAllRolesFromAddress(address) ==
  /\ RoleIdle
  /\ roleCall' = [IdleRoleCall EXCEPT !.op = "revokeAllRolesFromAddress",
                                      !.address = address,
                                      !.pc = "getAllRoleMembers"]
  /\ RoleUnchanged

\* getAllRoleMembers is settled; then the sort, the forEach up to the first await
\* of each callback, and the call of sendTransaction("multicall", [encoded])
buildMulticall ==
  /\ roleCall.pc = "getAllRoleMembers"
  /\ \/ roleCall' = [roleCall EXCEPT !.pc = "failed",
                                     !.error = CallError("getAllRoleMembers"),
                                     !.trace = Append(@, "getRoleMemberCount")]
     \/ /\ roleCall.op = "setAllRoleMembers"
        /\ LET sorted == SortAdminLast(roleCall.roles)
               waiting == RevokesOf(sorted, roleCall.input, roleMembers, getSigner)
           IN roleCall' = [roleCall EXCEPT
                !.currentRoles = roleMembers,
                !.roles = sorted,
                !.encoded = GrantsOf(sorted, roleCall.input, roleMembers),
                !.pending = waiting,
                !.trace = @ \o <<"getRoleMemberCount", "getRoleMember">>
                            \o [i \in DOMAIN waiting |-> "getAddress"],
                !.txFn = "multicall",
                !.pc = "getCallOverrides"]
     \/ /\ roleCall.op = "revokeAllRolesFromAddress"
        /\ LET sorted == SortAdminLast(ModuleRoles)
               waiting == RevokeAllOf(sorted, roleMembers, roleCall.address, getSigner)
           IN roleCall' = [roleCall EXCEPT
                !.currentRoles = roleMembers,
                !.roles = sorted,
                !.pending = waiting,
                !.trace = @ \o <<"getRoleMemberCount", "getRoleMember">>
                            \o [i \in DOMAIN waiting |-> "getAddress"],
                !.txFn = "multicall",
                !.pc = "getCallOverrides"]
  /\ RoleUnchanged

\* the sequence without its i-th element
RemoveAt(seq, i) == SubSeq(seq, 1, i - 1) \o SubSeq(seq, i + 1, Len(seq))

\* signer.getAddress() of one waiting callback is settled: the callback pushes its
\* revoke call to encoded (and its role to rolesRemoved)
pushRevoke(i) ==
  /\ i \in DOMAIN roleCall.pending
  /\ LET cb == roleCall.pending[i]
         fn == RevokeRoleFunctionName(cb.by.address, cb.address)
     IN roleCall' = [roleCall EXCEPT
          !.pending = RemoveAt(@, i),
          !.encoded = Append(@, EncodeRoleCall(fn, cb.role, cb.address)),
          !.rolesRemoved = IF roleCall.op = "revokeAllRolesFromAddress"
                             THEN Append(@, cb.role) ELSE @]
  /\ RoleUnchanged

\* sendTransaction -> sendContractTransaction: getCallOverrides is settled
roleCallOverrides ==
  /\ roleCall.pc = "getCallOverrides"
  /\ \/ roleCall' = [roleCall EXCEPT !.pc = "failed",
                                     !.error = CallError("getCallOverrides")]
     \/ roleCall' = [roleCall EXCEPT !.pc = "send"]
  /\ RoleUnchanged

\* the arguments as they are when the transaction is encoded: [encoded] is the
\* array the callbacks push to
ArgumentsNow(call) == IF call.txFn = "multicall" THEN <<call.encoded>> ELSE call.txArgs

\* sendTransaction -> sendContractTransaction: the call is encoded and submitted
\* on the path the options select
roleCallSend ==
  /\ roleCall.pc = "send"
  /\ IF Route(options) = "sendGasless" /\ (getSigner = Null \/ getProvider = Null)
       THEN roleCall' = [roleCall EXCEPT !.pc = "failed",
                                         !.error = InvariantError("signer")]
     ELSE IF Route(options) = "sendAndWait" /\ ~IsSigner(contract)
       THEN roleCall' = [roleCall EXCEPT !.pc = "failed",
                                         !.error = CallError("sendTransaction")]
     ELSE \/ roleCall' = [roleCall EXCEPT !.pc = "failed",
                                          !.error = CallError("sendTransaction")]
          \/ roleCall' = [roleCall EXCEPT
               !.sent = Append(@, [fn |-> roleCall.txFn, args |-> ArgumentsNow(roleCall)]),
               !.trace = Append(@, "sendTransaction"),
               !.pc = "wait"]
  /\ RoleUnchanged

\* the transaction is mined or fails; revokeAllRolesFromAddress returns
\* rolesRemoved
roleCallWait ==
  /\ roleCall.pc = "wait"
  /\ \/ roleCall' = [roleCall EXCEPT !.pc = "failed", !.error = CallError("wait")]
     \/ roleCall' = [roleCall EXCEPT
          !.result = Receipt("0xabc", 1),
          !.returned = roleCall.rolesRemoved,
          !.pc = "done"]
  /\ RoleUnchanged

(***************************************************************************)
(* BundleDropModule.claim: its steps, with the two transactions it sends   *)
(* through sendContractTransaction in call slot 1.                         *)
(***************************************************************************)
ClaimUnchanged ==
  UNCHANGED <<moduleVars, nonceCache, forwarderNonce, calls, invocations, built,
              moduleChanges, roleMembers, roleCall>>

\* sendTransaction("claim", [tokenId, quantity, proofs], overrides), called by the
\* claim in the state next
sendClaim(next) ==
  /\ StartCall(1, ModuleContract, "claim", <<next.tokenId, next.quantity, next.proofs>>,
               next.overrides)
  /\ claimCall' = [next EXCEPT !.claimId = invocations + 1, !.pc = "awaitClaim"]
  /\ UNCHANGED <<moduleVars, nonceCache, forwarderNonce, built, moduleChanges,
                 roleMembers, roleCall>>

\* claim(tokenId, quantity), up to getActiveClaimCondition
claim(tokenId, quantity) ==
  /\ claimCall.pc \in {"idle", "done", "failed"}
  /\ calls[1].pc \in {"idle", "done", "failed"}
  /\ claimCall' = [IdleClaimCall EXCEPT !.tokenId = tokenId, !.quantity = quantity,
                                        !.proofs = <<"proof">>,
                                        !.pc = "getActiveClaimCondition"]
  /\ ClaimUnchanged

\* getActiveClaimCondition returns the condition
claimCondition(condition) ==
  /\ claimCall.pc = "getActiveClaimCondition"
  /\ \/ claimCall' = [claimCall EXCEPT !.pc = "failed",
                                       !.error = CallError("getActiveClaimCondition")]
     \/ claimCall' = [claimCall EXCEPT !.condition = condition,
                                       !.pc = "getCallOverrides"]
  /\ ClaimUnchanged

\* const overrides = (await this.getCallOverrides()) || {}
claimOverrides(price) ==
  /\ claimCall.pc = "getCallOverrides"
  /\ IF getProvider = Null
       THEN claimCall' = [claimCall EXCEPT !.pc = "failed",
                                           !.error = InvariantError("getChainID")]
     ELSE \/ claimCall' = [claimCall EXCEPT !.pc = "failed",
                                            !.error = CallError("getCallOverrides")]
          \/ claimCall' = [claimCall EXCEPT
               !.overrides = [given |-> TRUE, value |-> 0, gasPrice |-> price],
               !.pc = "getSignerAddress"]
  /\ ClaimUnchanged

\* BigNumber.from(pricePerToken).mul(quantity)
TotalPrice(condition, quantity) == condition.pricePerToken * quantity

\* getSignerAddress, the proofs of the snapshot, and the branch on the price up to
\* the claim transaction or to the allowance of the currency
claimProofs ==
  /\ claimCall.pc = "getSignerAddress"
  /\ LET cond == claimCall.condition
         withProofs == [claimCall EXCEPT
                          !.proofs = IF cond.merkle = "listed" THEN <<"listed">> ELSE @]
     IN
     IF getSigner = Null
       THEN /\ claimCall' = [claimCall EXCEPT !.pc = "failed",
                               !.error = InvariantError("getSignerAddress")]
            /\ ClaimUnchanged
     ELSE IF cond.merkle = "unlisted"
       THEN /\ claimCall' = [claimCall EXCEPT !.pc = "failed",
                               !.error = CallError("No claim found for this address")]
            /\ ClaimUnchanged
     ELSE IF cond.pricePerToken > 0 /\ cond.currency = AddressZero
       THEN sendClaim([withProofs EXCEPT
                         !.totalPrice = TotalPrice(cond, claimCall.quantity),
                         !.overrides.value = TotalPrice(cond, claimCall.quantity)])
     ELSE IF cond.pricePerToken > 0
       THEN /\ claimCall' = [withProofs EXCEPT !.pc = "allowance"]
            /\ ClaimUnchanged
     ELSE sendClaim(withProofs)

\* erc20.allowance(owner, spender) returns; the approve transaction when the
\* allowance is below the total price, the claim transaction otherwise
claimAllowance(allowance) ==
  /\ claimCall.pc = "allowance"
  /\ LET cond == claimCall.condition
         totalPrice == TotalPrice(cond, claimCall.quantity)
         next == [claimCall EXCEPT !.allowance = allowance, !.totalPrice = totalPrice]
     IN
     IF getSigner = Null
       THEN /\ claimCall' = [claimCall EXCEPT !.pc = "failed",
                               !.error = InvariantError("getSignerAddress")]
            /\ ClaimUnchanged
     ELSE IF allowance < totalPrice
       THEN /\ StartCall(1, ERC20Connect(cond.currency), "approve",
                         <<ModuleAddress, allowance + totalPrice>>, NoOverrides)
            /\ claimCall' = [next EXCEPT !.pc = "awaitApprove"]
            /\ UNCHANGED <<moduleVars, nonceCache, forwarderNonce, built,
                           moduleChanges, roleMembers, roleCall>>
     ELSE sendClaim(next)

\* the approve call returns its receipt, then the claim transaction; or the approve
\* call fails and the claim with it
claimAfterApprove ==
  /\ claimCall.pc = "awaitApprove"
  /\ \/ /\ calls[1].pc = "done"
        /\ sendClaim([claimCall EXCEPT !.approve = calls[1]])
     \/ /\ calls[1].pc = "failed"
        /\ claimCall' = [claimCall EXCEPT !.approve = calls[1], !.pc = "failed",
                                          !.error = calls[1].error]
        /\ ClaimUnchanged

\* the claim transaction returns or fails
claimReturn ==
  /\ claimCall.pc = "awaitClaim"
  /\ \/ /\ calls[1].pc = "done"
        /\ claimCall' = [claimCall EXCEPT !.pc = "done"]
     \/ /\ calls[1].pc = "failed"
        /\ claimCall' = [claimCall EXCEPT !.pc = "failed", !.error = calls[1].error]
  /\ ClaimUnchanged

(***************************************************************************)
(* Specifications.                                                         *)
(*                                                                         *)
(* Spec: one caller that awaits each sendContractTransaction call before   *)
(* it starts the next one (slot 1), any contract binding, function name,   *)
(* argument list and overrides, while the setters of the module are called *)
(* at any moment, also between two steps of a call.                        *)
(***************************************************************************)
Statuses == {0, 1}

Invoke(c) ==
  \E r \in Requests, ov \in CallerOverrides \cup {NoOverrides} :
    sendContractTransaction(c, r[1], r[2], r[3], ov)

Next ==
  \/ Invoke(1)
  \/ getCallOverrides(1)
  \/ checkSignerAndProvider(1)
  \/ getChainID(1)
  \/ resolveRequestFields(1)
  \/ \E e \in GasEstimates : estimateGas(1, e)
  \/ nonceRead(1)
  \/ nonceIncrement(1)
  \/ \E v \in PermitVs : sign(1, v)
  \/ \E h \in TxHashes : relay(1, h)
  \/ \E status \in Statuses : waitForTransaction(1, status)
  \/ \E h \in TxHashes, status \in Statuses : sendAndWaitForTransaction(1, h, status)
  \/ \E x \in ProviderOrSigners : setProviderOrSigner(x)
  \/ clearSigner

Spec == Init /\ [][Next]_vars

(***************************************************************************)
(* SpecRace: several callers, each starting relayed calls on the module's  *)
(* own contract without awaiting the calls of the others; every step of    *)
(* every call in flight can be the next one to run.                        *)
(***************************************************************************)
InitRace == Init /\ options.transactionRelayerUrl /\ IsSigner(signer)

InvokeRace(c) ==
  \E ov \in CallerOverrides :
    sendContractTransaction(c, ModuleContract, "claim", ClaimArgs, ov)

NextRace ==
  \E c \in Calls :
    \/ InvokeRace(c)
    \/ checkSignerAndProvider(c)
    \/ getChainID(c)
    \/ resolveRequestFields(c)
    \/ estimateGas(c, 25000)
    \/ nonceRead(c)
    \/ nonceIncrement(c)
    \/ sign(c, 27)
    \/ relay(c, "0xabc")
    \/ waitForTransaction(c, 1)

SpecRace == InitRace /\ [][NextRace]_vars

(***************************************************************************)
(* SpecRoles: a module with roles on a contract that holds members; one    *)
(* caller that awaits each role operation before it starts the next one,   *)
(* while the callbacks the operation left behind are settled at any moment.*)
(***************************************************************************)
InitRoles ==
  /\ Constructed
  /\ NoCallYet
  /\ roleMembers \in RoleMemberships

NextRoles ==
  \/ \E role \in RoleInputs : getRoleMembers(role)
  \/ readRoleMembers
  \/ \E role \in RoleInputs, address \in RoleAddresses : grantRole(role, address)
  \/ \E role \in RoleInputs, address \in RoleAddresses : revokeRole(role, address)
  \/ revokeRoleSend
  \/ \E input \in SetAllRolesInputs : setAllRoleMembers(input)
  \/ \E address \in RoleAddresses : revokeAllRolesFromAddress(address)
  \/ buildMulticall
  \/ \E i \in 1..Len(ModuleRoles) * 2 : pushRevoke(i)
  \/ roleCallOverrides
  \/ roleCallSend
  \/ roleCallWait

SpecRoles == InitRoles /\ [][NextRoles]_vars

(***************************************************************************)
(* SpecClaim: one caller of BundleDropModule.claim; the steps of the claim *)
(* and the steps of the calls it sends.                                    *)
(***************************************************************************)
NextClaim ==
  \/ \E quantity \in ClaimQuantities : claim(0, quantity)
  \/ \E condition \in ClaimConditions : claimCondition(condition)
  \/ \E price \in GasPrices : claimOverrides(price)
  \/ claimProofs
  \/ \E allowance \in Allowances : claimAllowance(allowance)
  \/ claimAfterApprove
  \/ claimReturn
  \/ getCallOverrides(1)
  \/ checkSignerAndProvider(1)
  \/ getChainID(1)
  \/ resolveRequestFields(1)
  \/ estimateGas(1, 25000)
  \/ nonceRead(1)
  \/ nonceIncrement(1)
  \/ sign(1, 27)
  \/ relay(1, "0xabc")
  \/ \E status \in Statuses : waitForTransaction(1, status)
  \/ \E status \in Statuses : sendAndWaitForTransaction(1, "0xabc", status)

SpecClaim == Init /\ [][NextClaim]_vars

(***************************************************************************)
(* Properties.                                                             *)
(***************************************************************************)
Relayed == options.transactionRelayerUrl

\* the position of an operation in a trace (0: not attempted)
Pos(trace, op) ==
  IF \E i \in DOMAIN trace : trace[i] = op
    THEN CHOOSE i \in DOMAIN trace : trace[i] = op
    ELSE 0

Count(trace, op) == Cardinality({i \in DOMAIN trace : trace[i] = op})

\* the operations sendGaslessTransaction performs after its signer invariant
GaslessOperations ==
  {"getAddress", "encodeFunctionData", "estimateGas", "getNonce", "_signTypedData",
   "eth_signTypedData", "signERC2612Permit", "relay", "waitForTransaction"}

\* the steps of sendGaslessTransaction that follow its first one
AfterFirstStep ==
  {"getChainID", "getSignerAddress", "estimateGas", "getNonce", "incrementNonce",
   "sign", "relay", "waitForTransaction"}

\* the call is an approve(address,uint256) on a contract that exposes permit
ApproveOnPermitContract(call) ==
  /\ call.data.sig = ApproveSig
  /\ PermitSig \in call.contract.functions

\* C1 as stated: a relayed call that fails on the signer invariant has attempted
\* no network call before
C1_NoNetworkCallBeforeSignerError ==
  \A c \in Calls :
    (Relayed /\ calls[c].error = InvariantError("signer")) => calls[c].trace = <<>>

\* C1 amended: sendGaslessTransaction checks the signer before any operation of its
\* own: a call that fails on the signer invariant has attempted nothing when the
\* caller supplied overrides and only the two lookups of getCallOverrides when not,
\* and no call gets past the first step or attempts an operation of the relay path
\* without a signer
C1_SignerCheckedFirst ==
  \A c \in Calls :
    /\ calls[c].error = InvariantError("signer") =>
         /\ Relayed
         /\ calls[c].trace = IF calls[c].callerOverrides THEN <<>>
                             ELSE <<"getNetwork", "getGasPriceForChain">>
         /\ calls[c].signLog = <<>> /\ calls[c].relayLog = <<>>
    /\ calls[c].pc \in AfterFirstStep => IsSigner(calls[c].signer)
    /\ (\E i \in DOMAIN calls[c].trace : calls[c].trace[i] \in GaslessOperations)
         => IsSigner(calls[c].signer)

C1_Witness ==
  \E c \in Calls :
    /\ calls[c].pc = "failed"
    /\ calls[c].error = InvariantError("signer")
    /\ signer = Null
    /\ calls[c].trace = <<"getNetwork", "getGasPriceForChain">>

\* C2: the gas field of a ForwardRequest is 500000 when the estimate is below
\* 25000 and twice the estimate otherwise; 24999 gives 500000, 25000 gives 50000
C2_GasLimitPolicy ==
  \A c \in Calls :
    calls[c].message.kind = "ForwardRequest" =>
      LET e == calls[c].gasEstimate
          g == DecValue(calls[c].message.gas)
      IN /\ e < 25000 => g = 500000
         /\ e >= 25000 => g = 2 * e
         /\ e = 24999 => calls[c].message.gas = <<5, 0, 0, 0, 0, 0>>
         /\ e = 25000 => calls[c].message.gas = <<5, 0, 0, 0, 0>>

C2_Witness ==
  \E c \in Calls :
    /\ Len(calls[c].relayLog) = 1
    /\ calls[c].relayLog[1].message.kind = "ForwardRequest"
    /\ calls[c].gasEstimate = 25000
    /\ calls[c].relayLog[1].message.gas = <<5, 0, 0, 0, 0>>

\* C3: every relayed approve(address,uint256) on a contract that exposes permit
\* hands the relay a PermitRequest with a packed r|s|v signature
C3_PermitForEveryApprove ==
  \A c \in Calls :
    (calls[c].relayLog # <<>> /\ ApproveOnPermitContract(calls[c])) =>
      /\ calls[c].relayLog[1].message.kind = "PermitRequest"
      /\ calls[c].relayLog[1].signature.kind = "packed"

\* C4: every relayed call that is not an approve(address,uint256) on a contract
\* that exposes permit hands the relay a ForwardRequest {from, to, value, gas,
\* nonce, data} and a typed-data signature of exactly that message
C4_ForwardRequestOtherwise ==
  \A c \in Calls :
    (calls[c].relayLog # <<>> /\ ~ApproveOnPermitContract(calls[c])) =>
      LET m == calls[c].relayLog[1].message
          sg == calls[c].relayLog[1].signature
      IN /\ m.kind = "ForwardRequest"
         /\ DOMAIN m = {"kind", "from", "to", "value", "gas", "nonce", "data"}
         /\ m.from = calls[c].from
         /\ m.data = calls[c].data
         /\ sg.kind = "typedData"
         /\ sg.types = "ForwardRequest"
         /\ sg.message = m
         /\ sg.by = calls[c].signer.name

C4_Witness ==
  \E c \in Calls :
    /\ calls[c].relayLog # <<>>
    /\ calls[c].contract = PlainToken
    /\ calls[c].fn = "approve"
    /\ calls[c].relayLog[1].message.kind = "ForwardRequest"

\* C5 as stated: in every relayed call that obtains a signature, a WalletConnect
\* signer signs through eth_signTypedData with the lower-cased address and any
\* other signer through the native entry point
C5_EntryPointInEveryCall ==
  \A c \in Calls :
    calls[c].signLog # <<>> =>
      IF IsWalletConnect(calls[c].signer)
        THEN /\ calls[c].signLog = <<"eth_signTypedData">>
             /\ calls[c].signature.account = ToLowerCase(calls[c].from)
        ELSE calls[c].signLog = <<"_signTypedData">>

\* C5 amended: in every relayed call that signs a generic ForwardRequest, a
\* WalletConnect signer signs through eth_signTypedData with the lower-cased from
\* address and any other signer through the native entry point, one entry point
\* per call; a call on the permit path signs through the permit flow only
C5_EntryPointOnGenericPath ==
  \A c \in Calls :
    calls[c].signLog # <<>> =>
      /\ Len(calls[c].signLog) = 1
      /\ IF calls[c].message.kind = "PermitRequest"
           THEN calls[c].signLog = <<"signERC2612Permit">>
         ELSE IF IsWalletConnect(calls[c].signer)
           THEN /\ calls[c].signLog = <<"eth_signTypedData">>
                /\ calls[c].signature.account = ToLowerCase(calls[c].from)
                /\ Count(calls[c].trace, "_signTypedData") = 0
           ELSE /\ calls[c].signLog = <<"_signTypedData">>
                /\ Count(calls[c].trace, "eth_signTypedData") = 0

C5_Witness ==
  \E c \in Calls :
    /\ calls[c].signLog = <<"eth_signTypedData">>
    /\ calls[c].signer = SignerW
    /\ calls[c].signature.account = <<"c", "d">>
    /\ calls[c].from = <<"C", "d">>

\* C6: the nonce field of a ForwardRequest is the value the nonce source returned
\* to the call, the cached nonce of the sender is greater than every nonce used
\* once the request is built, and calls that do not overlap never build two
\* requests of one sender with the same nonce
C6_NonceReadThenIncremented ==
  /\ \A c \in Calls :
       calls[c].message.kind = "ForwardRequest" =>
         /\ DecValue(calls[c].message.nonce) = calls[c].nonce
         /\ nonceCache[calls[c].from] > calls[c].nonce
         /\ [id |-> calls[c].id, from |-> calls[c].from,
             nonce |-> ToDecString(calls[c].nonce)] \in built
  /\ \A r \in built : nonceCache[r.from] > DecValue(r.nonce)
  /\ \A r1, r2 \in built :
       (r1.id # r2.id /\ r1.from = r2.from) => r1.nonce # r2.nonce

C6_Witness ==
  \E r1, r2 \in built :
    /\ r1.id # r2.id
    /\ r1.from = r2.from
    /\ DecValue(r2.nonce) = DecValue(r1.nonce) + 1
    /\ nonceCache[r1.from] = DecValue(r2.nonce) + 1

\* C7: the nonce read is not protected by mutual exclusion: while one call is
\* between its read and its increment, the read of another call of the same
\* sender can run and returns the same nonce
C7_NonceReadNotExclusive ==
  \A a, b \in Calls :
    (/\ a # b
     /\ calls[a].pc = "incrementNonce"
     /\ calls[b].pc = "getNonce"
     /\ calls[a].from = calls[b].from
     /\ calls[a].nonce = NonceSource(nonceCache, forwarderNonce, calls[b].from))
    => ENABLED (/\ nonceRead(b)
                /\ calls'[b].pc = "incrementNonce"
                /\ calls'[b].nonce = calls[a].nonce)

\* two calls in flight together have handed the relay requests of one sender with
\* the same nonce
C7_Witness ==
  \E a, b \in Calls :
    /\ a # b
    /\ calls[a].relayLog # <<>> /\ calls[b].relayLog # <<>>
    /\ calls[a].relayLog[1].message.kind = "ForwardRequest"
    /\ calls[b].relayLog[1].message.kind = "ForwardRequest"
    /\ calls[a].relayLog[1].message.from = calls[b].relayLog[1].message.from
    /\ calls[a].relayLog[1].message.nonce = calls[b].relayLog[1].message.nonce
    /\ calls[a].pc = "waitForTransaction" /\ calls[b].pc = "waitForTransaction"

\* C8: in every ForwardRequest handed to the relay, to is the address of the
\* contract the call data was encoded for, from is the address of the signer and
\* value is the value of the caller's overrides or 0
C8_RequestAddressesAndValue ==
  \A c \in Calls :
    (calls[c].relayLog # <<>>
       /\ calls[c].relayLog[1].message.kind = "ForwardRequest") =>
      LET m == calls[c].relayLog[1].message IN
      /\ m.to = calls[c].contract.address
      /\ m.from = calls[c].signer.address
      /\ DecValue(m.value) =
           (IF calls[c].callerOverrides THEN calls[c].overrides.value ELSE 0)

\* C9: waitForTransaction is called after the relay returned, with the hash the
\* relay returned; the receipt it resolves to is the result of the call; the relay
\* is called after a signature was obtained
C9_DispatchThenWaitThenReturn ==
  \A c \in Calls :
    /\ calls[c].waitLog # <<>> =>
         /\ Len(calls[c].waitLog) = 1
         /\ Len(calls[c].relayLog) = 1
         /\ calls[c].txHash \in TxHashes
         /\ calls[c].waitLog[1].hash = calls[c].txHash
         /\ 0 < Pos(calls[c].trace, "relay")
         /\ Pos(calls[c].trace, "relay") < Pos(calls[c].trace, "waitForTransaction")
    /\ (Relayed /\ calls[c].pc = "done") =>
         /\ calls[c].waitLog # <<>>
         /\ calls[c].result = calls[c].waitLog[1].receipt
         /\ calls[c].result.transactionHash = calls[c].txHash
    /\ calls[c].relayLog # <<>> =>
         /\ Len(calls[c].signLog) = 1
         /\ calls[c].relayLog[1].signature # NoSignature
         /\ calls[c].relayLog[1].signature = calls[c].signature
         /\ 0 < Pos(calls[c].trace, calls[c].signLog[1])
         /\ Pos(calls[c].trace, calls[c].signLog[1]) < Pos(calls[c].trace, "relay")

C9_Witness ==
  \E c \in Calls :
    /\ Relayed
    /\ calls[c].pc = "done"
    /\ calls[c].txHash = "0xdef"
    /\ calls[c].waitLog = <<[hash |-> "0xdef", receipt |-> Receipt("0xdef", 1)]>>
    /\ calls[c].result = Receipt("0xdef", 1)

\* the operations a relayed call performs at most once
OnceOperations ==
  {"getAddress", "encodeFunctionData", "estimateGas", "getNonce", "_signTypedData",
   "eth_signTypedData", "signERC2612Permit", "relay", "waitForTransaction",
   "getGasPriceForChain"}

\* C10: a failure ends the call with its error, the failed operation is the last
\* one the call attempted, no operation is attempted twice, and the signer and
\* the relay are called at most once per call
C10_FailureEndsTheCall ==
  \A c \in Calls :
    /\ calls[c].error # NoError <=> calls[c].pc = "failed"
    /\ calls[c].pc = "failed" =>
         /\ calls[c].result = NoReceipt
         /\ calls[c].error.kind = "Error" =>
              calls[c].trace[Len(calls[c].trace)] = calls[c].error.at
         /\ (Relayed /\ calls[c].error.at # "waitForTransaction") =>
              calls[c].txHash = "none"
         /\ calls[c].error.at \notin {"waitForTransaction", "wait"} =>
              calls[c].waitLog = <<>>
         /\ calls[c].error.at \notin {"relay", "waitForTransaction"} =>
              calls[c].relayLog = <<>>
    /\ \A op \in OnceOperations : Count(calls[c].trace, op) <= 1
    /\ Count(calls[c].trace, "getNetwork") <= 2
    /\ Len(calls[c].signLog) <= 1
    /\ Len(calls[c].relayLog) <= 1
    /\ Len(calls[c].waitLog) <= 1

C10_Witness ==
  \E c \in Calls :
    /\ calls[c].pc = "failed"
    /\ calls[c].error = CallError("relay")
    /\ Len(calls[c].relayLog) = 1
    /\ Len(calls[c].signLog) = 1
    /\ calls[c].waitLog = <<>>

\* the steps of a call that belong to sendGaslessTransaction
GaslessSteps ==
  {"sendGasless", "getChainID", "getSignerAddress", "estimateGas", "getNonce",
   "incrementNonce", "sign", "relay", "waitForTransaction"}

C12_SigningDomain ==
  \A c \in Calls :
    (calls[c].relayLog # <<>> /\ calls[c].relayLog[1].signature.kind = "typedData") =>
      LET d == calls[c].relayLog[1].signature.domain IN
      /\ DOMAIN d = {"name", "version", "chainId", "verifyingContract"}
      /\ d.name = "GSNv2 Forwarder"
      /\ d.version = "0.0.1"
      /\ calls[c].network # Null
      /\ d.chainId = calls[c].network.chainId
      /\ d.verifyingContract = options.transactionRelayerForwarderAddress
      /\ d.verifyingContract = calls[c].forwarder.address
      /\ Pos(calls[c].trace, "getNonce") > 0

C12_Witness ==
  \E c \in Calls :
    /\ calls[c].relayLog # <<>>
    /\ calls[c].relayLog[1].signature.kind = "typedData"
    /\ calls[c].relayLog[1].signature.domain =
         [name |-> "GSNv2 Forwarder", version |-> "0.0.1", chainId |-> 1,
          verifyingContract |-> ForwarderAddress]
    /\ calls[c].network = WalletConnectProvider

\* the fields of a PermitRequest that the permit flow signed
SignedPartOfPermitRequest(m) ==
  [kind |-> "Permit", verifyingContract |-> m.to, owner |-> m.owner,
   spender |-> m.spender, value |-> m.value, nonce |-> m.nonce,
   deadline |-> m.deadline]

\* C13: the message handed to the relay is the message that was signed in the same
\* call and the signature is the one produced for it: a ForwardRequest is the
\* message the typed-data signature was made over, unchanged since it was built;
\* a PermitRequest holds the fields the permit flow signed together with the r, s,
\* v the packed signature is made of
C13_MessageUnchangedAfterSigning ==
  \A c \in Calls :
    calls[c].relayLog # <<>> =>
      LET m == calls[c].relayLog[1].message
          sg == calls[c].relayLog[1].signature
      IN /\ sg = calls[c].signature
         /\ calls[c].signed # NoMessage
         /\ IF m.kind = "ForwardRequest"
              THEN /\ m = calls[c].signed
                   /\ sg.kind = "typedData"
                   /\ sg.message = m
                   /\ m = ForwardRequestMessage(calls[c].from, calls[c].to,
                            calls[c].value, calls[c].gas, calls[c].nonce, calls[c].data)
              ELSE /\ m.kind = "PermitRequest"
                   /\ SignedPartOfPermitRequest(m) = calls[c].signed
                   /\ sg.kind = "packed"
                   /\ SubSeq(sg.hex, 1, 66) = m.r
                   /\ SubSeq(sg.hex, 67, 130) = SubSeq(m.s, 3, 66)

C13_Witness ==
  \E c \in Calls :
    /\ calls[c].pc = "done"
    /\ calls[c].contract = PlainToken
    /\ Len(calls[c].relayLog) = 1
    /\ calls[c].relayLog[1].message = calls[c].signed
    /\ calls[c].relayLog[1].message.to = ModuleAddress
    /\ calls[c].relayLog[1].signature.message = calls[c].signed

\* the length in bytes of a 0x-prefixed hex string with an even number of digits
\* (-1: the string is not a whole number of bytes)
ByteLength(hex) == IF (Len(hex) - 2) % 2 = 0 THEN (Len(hex) - 2) \div 2 ELSE -1

\* C14: every packed signature handed to the relay is r, then s, then v as one
\* byte of two hex digits: 65 bytes
C14_PackedSignatureIs65Bytes ==
  \A c \in Calls :
    (calls[c].relayLog # <<>> /\ calls[c].relayLog[1].signature.kind = "packed") =>
      LET hex == calls[c].relayLog[1].signature.hex IN
      /\ Len(hex) = 2 + 64 + 64 + 2
      /\ ByteLength(hex) = 65

\* C20: a call on the permit path has read the forwarder nonce of the sender and
\* left the cached nonce at the value read plus one, as a call on the generic
\* path has, and the PermitRequest handed to the relay carries the permit nonce of
\* the token, not the forwarder nonce
C20_PermitPathIncrementsNonce ==
  \A c \in Calls :
    /\ calls[c].signLog # <<>> =>
         /\ 0 < Pos(calls[c].trace, "getNonce")
         /\ Pos(calls[c].trace, "getNonce") < Pos(calls[c].trace, calls[c].signLog[1])
         /\ nonceCache[calls[c].from] = calls[c].nonce + 1
    /\ (calls[c].relayLog # <<>>
          /\ calls[c].relayLog[1].message.kind = "PermitRequest") =>
         LET m == calls[c].relayLog[1].message IN
         /\ DOMAIN m = {"kind", "to", "owner", "spender", "value", "nonce", "deadline",
                        "r", "s", "v"}
         /\ m.nonce = TokenNonce(calls[c].contract.address, calls[c].from)
         /\ nonceCache[calls[c].from] = calls[c].nonce + 1

C20_Witness ==
  \E c \in Calls :
    /\ calls[c].relayLog # <<>>
    /\ calls[c].relayLog[1].message.kind = "PermitRequest"
    /\ calls[c].id = 2
    /\ calls[c].nonce = 1
    /\ nonceCache[calls[c].from] = 2

\* two spellings of one account
SameAddress(a, b) == ToLowerCase(a) = ToLowerCase(b)

\* the account is among the listed ones
IsMember(list, a) == \E i \in DOMAIN list : SameAddress(list[i], a)

RoleSet == {ModuleRoles[i] : i \in DOMAIN ModuleRoles}

\* the payload holds a call of one of the functions on the role and the account
HasRoleCall(payload, fns, role, a) ==
  \E i \in DOMAIN payload :
    /\ payload[i].fn \in fns
    /\ payload[i].role = RoleHash(role)
    /\ SameAddress(payload[i].account, a)

\* C15: the multicall setAllRoleMembers submits holds, for each role of the
\* argument, a grantRole for every address of the new list that is not a current
\* member and a revokeRole or renounceRole for every current member that is not in
\* the new list, in whatever order the steps of the operation are settled
C15_MulticallOverwritesRoles ==
  (roleCall.op = "setAllRoleMembers" /\ roleCall.sent # <<>>) =>
    LET payload == roleCall.sent[1].args[1] IN
    \A i \in DOMAIN roleCall.input :
      LET role == roleCall.input[i].role
          new == roleCall.input[i].addresses
          cur == roleCall.currentRoles[role]
      IN /\ \A j \in DOMAIN new :
              ~IsMember(cur, new[j]) => HasRoleCall(payload, {"grantRole"}, role, new[j])
         /\ \A j \in DOMAIN cur :
              ~IsMember(new, cur[j]) =>
                HasRoleCall(payload, {"revokeRole", "renounceRole"}, role, cur[j])

\* C16: when revokeAllRolesFromAddress returns it has submitted one multicall that
\* revokes (renounces, for the address of the signer) exactly the roles the
\* address holds, and the list it returns names exactly the roles revoked in the
\* submitted multicall
C16_RevokeAllMatchesHeldRoles ==
  (roleCall.op = "revokeAllRolesFromAddress" /\ roleCall.pc = "done") =>
    /\ Len(roleCall.sent) = 1
    /\ roleCall.sent[1].fn = "multicall"
    /\ LET payload == roleCall.sent[1].args[1]
           held == {r \in RoleSet : IsMember(roleCall.currentRoles[r], roleCall.address)}
           revoked == {r \in RoleSet :
                         HasRoleCall(payload, {"revokeRole", "renounceRole"}, r,
                                     roleCall.address)}
       IN /\ revoked = held
          /\ {roleCall.returned[i] : i \in DOMAIN roleCall.returned} = revoked
          /\ Len(roleCall.returned) = Len(payload)

\* C17: grantRole, revokeRole and getRoleMembers with a role the module does not
\* support fail with an InvariantError on the role before any contract call,
\* any request to the signer and any transaction
C17_UnsupportedRoleFailsFirst ==
  (roleCall.op \in {"grantRole", "revokeRole", "getRoleMembers"}
     /\ ~Includes(ModuleRoles, roleCall.role)) =>
    /\ roleCall.pc = "failed"
    /\ roleCall.error = InvariantError("role")
    /\ roleCall.trace = <<>>
    /\ roleCall.sent = <<>>
    /\ roleCall.members = <<>>
    /\ roleCall.txFn = "none"

C17_Witness ==
  /\ roleCall.op = "revokeRole"
  /\ roleCall.role = "pauser"
  /\ roleCall.address = <<"S", "p">>
  /\ roleCall.pc = "failed"
  /\ roleCall.error = InvariantError("role")
  /\ getSigner # Null

\* C18: in the multicall payload of setAllRoleMembers and of
\* revokeAllRolesFromAddress every call on the admin role comes after every call
\* on another role
C18_AdminOperationsLast ==
  (roleCall.op \in {"setAllRoleMembers", "revokeAllRolesFromAddress"}
     /\ roleCall.sent # <<>>) =>
    LET payload == roleCall.sent[1].args[1] IN
    \A i, j \in DOMAIN payload :
      (payload[i].role = RoleHash("admin") /\ payload[j].role # RoleHash("admin"))
        => j < i

\* the claim transaction has been submitted
ClaimSubmitted ==
  /\ claimCall.claimId > 0
  /\ calls[1].id = claimCall.claimId
  /\ (calls[1].directLog # <<>> \/ calls[1].relayLog # <<>>)

\* the call submitted a transaction that approves amount for spender on the token:
\* approve(spender, amount) sent to the token, or the permit that replaces it
ApprovalSubmitted(call, token, spender, amount) ==
  \/ /\ call.directLog # <<>>
     /\ call.directLog[1].to = token
     /\ call.directLog[1].fn = "approve"
     /\ call.directLog[1].args = <<spender, amount>>
  \/ /\ call.relayLog # <<>>
     /\ call.relayLog[1].message.kind = "ForwardRequest"
     /\ call.relayLog[1].message.to = token
     /\ call.relayLog[1].message.data = [sig |-> ApproveSig, args |-> <<spender, amount>>]
  \/ /\ call.relayLog # <<>>
     /\ call.relayLog[1].message.kind = "PermitRequest"
     /\ call.relayLog[1].message.to = token
     /\ call.relayLog[1].message.spender = spender
     /\ call.relayLog[1].message.value = amount

\* the value the submitted transaction carries
SubmittedValue(call) ==
  IF call.directLog # <<>> THEN call.directLog[1].overrides.value
  ELSE DecValue(call.relayLog[1].message.value)

\* C19: when the claim transaction is submitted: for a positive price in an ERC-20
\* currency with an allowance below price * quantity, an approve of allowance +
\* price * quantity for the module on the currency was submitted and its call
\* returned before; with a sufficient allowance no approve was sent; for a
\* positive price in the native token the claim carries value price * quantity
\* and no approve was sent
C19_ApproveBeforeClaim ==
  ClaimSubmitted =>
    LET cond == claimCall.condition
        totalPrice == cond.pricePerToken * claimCall.quantity
        erc20 == cond.pricePerToken > 0 /\ cond.currency # AddressZero
        native == cond.pricePerToken > 0 /\ cond.currency = AddressZero
    IN /\ (erc20 /\ claimCall.allowance < totalPrice) =>
            /\ claimCall.approve.pc = "done"
            /\ claimCall.approve.id < calls[1].id
            /\ ApprovalSubmitted(claimCall.approve, cond.currency, ModuleAddress,
                                 claimCall.allowance + totalPrice)
       /\ (erc20 /\ claimCall.allowance >= totalPrice) => claimCall.approve = IdleCall
       /\ native =>
            /\ claimCall.approve = IdleCall
            /\ SubmittedValue(calls[1]) = totalPrice

\* the call has passed the increment of getAndIncrementNonce
PastNonceStep(call) ==
  \/ call.pc \in {"sign", "relay", "waitForTransaction"}
  \/ call.pc \in {"done", "failed"} /\ call.message # NoMessage

\* the step is the increment of getAndIncrementNonce in call c
IsNonceIncrement(c) ==
  /\ calls[c].pc = "incrementNonce"
  /\ calls'[c].pc = "sign"
  /\ nonceCache' = [nonceCache EXCEPT ![calls[c].from] = calls[c].nonce + 1]

\* a step leaves the cached nonces alone unless it is the increment of a call, which
\* raises the cached nonce of the sender, by one when a nonce was cached; a step
\* in which a call fails never changes a cached nonce
NonceStepEffect ==
  /\ \A a \in SenderAddresses : nonceCache'[a] >= nonceCache[a]
  /\ nonceCache' # nonceCache =>
       \E c \in Calls :
         /\ IsNonceIncrement(c)
         /\ nonceCache[calls[c].from] # -1 =>
              nonceCache'[calls[c].from] = nonceCache[calls[c].from] + 1
  /\ \A c \in Calls :
       (calls[c].pc # "failed" /\ calls'[c].pc = "failed") => nonceCache' = nonceCache

\* C21: the cached forwarder nonce is never rolled back: no step lowers it, a
\* step in which a call fails leaves it as it is, only the increment of the nonce
\* step changes it, and a call that has passed the nonce step, failed or not,
\* leaves the cached nonce of its sender at the value it read plus one
C21_NonceNeverRolledBack ==
  /\ [](\A c \in Calls :
          PastNonceStep(calls[c]) => nonceCache[calls[c].from] = calls[c].nonce + 1)
  /\ [][NonceStepEffect]_vars

C21_Witness ==
  \E c \in Calls :
    /\ calls[c].id = 2
    /\ calls[c].pc = "failed"
    /\ calls[c].error = CallError("waitForTransaction")
    /\ calls[c].nonce = 1
    /\ nonceCache[calls[c].from] = 2

\* the three readings of "the module has a valid signer" agree, and an attached
\* signer is what providerOrSigner resolves to
SignerReadings ==
  /\ hasValidSigner <=> getSigner # Null
  /\ hasValidSigner <=> signer \in Signers
  /\ hasValidSigner => providerOrSigner = signer

\* the effect of one step on the attached signer: a setProviderOrSigner call with
\* a signer attaches it, one with a plain provider leaves the attachment as it is,
\* a clearSigner call detaches, no other step touches the attachment, and the
\* signer precondition of a relayed call passes exactly when a signer is attached
SignerStepEffect ==
  /\ \A x \in Signers :
       setProviderOrSigner(x) =>
         /\ hasValidSigner'
         /\ getSigner' = x
         /\ providerOrSigner' = x
  /\ \A x \in ProviderOrSigners \ Signers :
       setProviderOrSigner(x) =>
         /\ signer' = signer
         /\ hasValidSigner' <=> hasValidSigner
         /\ hasValidSigner => providerOrSigner' = signer
  /\ clearSigner => ~hasValidSigner' /\ getSigner' = Null
  /\ signer' # signer => \/ \E x \in ProviderOrSigners : setProviderOrSigner(x)
                         \/ clearSigner
  /\ \A c \in Calls :
       checkSignerAndProvider(c) =>
         (calls'[c].error # InvariantError("signer") <=> hasValidSigner)

ContractBindings ==
  /\ signer # Null => contract = signer
  /\ IsSigner(storedProviderOrSigner) => contract = storedProviderOrSigner
  /\ (signer = Null /\ ~IsSigner(storedProviderOrSigner)) =>
       contract = storedProviderOrSigner \/ IsSigner(contract)
  /\ readOnlyContract = ConnectReadOnly(options, contract)

\* everything but the signer field and the count of setter calls
AllButSigner ==
  <<storedProviderOrSigner, contract, readOnlyContract, options, nonceCache,
    forwarderNonce, calls, invocations, built, callerVars>>

\* a step that detaches the signer, and every clearSigner call, leaves all but the
\* signer field as it is; a step that changes the stored value, attaches a signer
\* or changes the contract binding, and every setProviderOrSigner call, leaves the
\* contract connected to what providerOrSigner resolves to after it
BindingStepEffect ==
  /\ (signer # Null /\ signer' = Null) => UNCHANGED AllButSigner
  /\ clearSigner => signer' = Null /\ UNCHANGED AllButSigner
  /\ (\/ storedProviderOrSigner' # storedProviderOrSigner
      \/ signer' # signer /\ signer' # Null
      \/ contract' # contract
      \/ \E x \in ProviderOrSigners : setProviderOrSigner(x)) =>
       /\ contract' = providerOrSigner'
       /\ readOnlyContract' = ConnectReadOnly(options, contract')

\* C23: clearSigner changes only the signer field, so the contract bindings stay
\* those of the most recent setProviderOrSigner call, the cleared signer included,
\* and after every setProviderOrSigner call the contract is connected to what
\* providerOrSigner resolves to at that moment
C23_ClearSignerKeepsBindings ==
  /\ []ContractBindings
  /\ [][BindingStepEffect]_vars

C23_Witness ==
  /\ moduleChanges > 0
  /\ signer = Null
  /\ storedProviderOrSigner = SignerA
  /\ contract = SignerA
  /\ readOnlyContract = SignerA
  /\ providerOrSigner = SignerA

====
